---- MODULE Spec2Model ----
(***************************************************************************)
(* A model of trie::trie_map (src/src/trie.h): a compressed radix trie     *)
(* with a per-node adaptive child table, a chunked label arena, a generic  *)
(* traversal kernel and a depth-first cursor.                              *)
(*                                                                         *)
(* Pointers are modelled as indices: a NodeT* is an index into the deque   *)
(* `edges` (1-based, NULL = nullptr), a ChunkT* is an index into the deque *)
(* `keys`, a ValueT* owned by a map-mode node is an index into `heap`, and *)
(* a child-table slot pointer (map_iterator) is a pair <<node, slot>>.     *)
(* The operators that model a function thread the container through a      *)
(* record st = [edges, keys, heap, msize].                                 *)
(***************************************************************************)
EXTENDS Integers, Sequences, FiniteSets, TLC

\* ------------------------------------------------------------------------
\* Bounds of the model
\* ------------------------------------------------------------------------
MaxKeyLen == 2
MaxEdges == 3
MaxVal == 2
MaxTableEdges == 4

\* The two atoms collide in a 1-slot and in a 2-slot table, so attaching a
\* second child always goes through resize.
Atoms == {1, 3}

Keys == UNION {[1..n -> Atoms] : n \in 0..MaxKeyLen}

\* char is signed on some platforms and unsigned on others; a container holds
\* atoms of the one char type of its build.
SignedAtoms == {-128, -2, -1, 0, 1, 3, 127}

UnsignedAtoms == {0, 1, 3, 127, 128, 254, 255}

\* the keys that give a node its children: the empty key, the one-atom keys and
\* the two-atom keys below the atom 1
TableKeys ==
    {<<>>} \cup {<<a>> : a \in SignedAtoms \cup UnsignedAtoms}
           \cup {<<1, a>> : a \in SignedAtoms \cup UnsignedAtoms}

NULL == 0

\* The non-zero CMinChunkSize explored beside the default 0.
ChunkSize == 3

\* a CMinChunkSize shorter than the longest key
SmallChunk == 1

Modes == {"map", "counter"}

VARIABLES
    mode,    \* ValueT: "map" (ValueHolder<ValueT>) or "counter" (ValueHolder<SetCounter>)
    cmin,    \* CMinChunkSize template parameter
    edges,   \* EdgeStorageT edges: deque of nodes
    keys,    \* InternalStorageT keys: deque of chunks
    heap,    \* values owned through auto_ptr (map mode)
    msize,   \* size_t msize
    ref,     \* reference map: key -> <<>> (never inserted) or <<v>> (last stored)
    ret      \* the client's view of the last call: its arguments and result

container == <<mode, cmin, edges, keys, heap, msize>>

vars == <<mode, cmin, edges, keys, heap, msize, ref, ret>>

\* ------------------------------------------------------------------------
\* Bit arithmetic
\* ------------------------------------------------------------------------
RECURSIVE BitAnd(_, _)
BitAnd(x, m) ==
    IF m = 0 THEN 0
    ELSE (x % 2) * (m % 2) + 2 * BitAnd(x \div 2, m \div 2)

\* Atoms are 8-bit chars; promoted to int they are sign-extended, so two
\* different atoms differ in one of the low AtomBits bits.
AtomBits == 8

\* a lowest differing bit that leaves the top bit of the atoms out
RECURSIVE LowestDiffBit_low(_, _, _)
LowestDiffBit_low(a, b, w) ==
    IF w <= 1 THEN 0
    ELSE IF (a % 2) # (b % 2) THEN 1
    ELSE 2 * LowestDiffBit_low(a \div 2, b \div 2, w - 1)

\* v & -v for v = a XOR b: the lowest bit in which a and b differ, 0 when a = b
RECURSIVE LowestDiffBit(_, _, _)
LowestDiffBit(a, b, w) ==
    IF w = 0 THEN 0
    ELSE IF (a % 2) # (b % 2) THEN 1
    ELSE 2 * LowestDiffBit(a \div 2, b \div 2, w - 1)

atom_hash(x, mask) == BitAnd(x, mask)

\* a size twice as large as asked
least_uncolliding_size_wide(a, b) == LowestDiffBit(a, b, AtomBits) * 4

least_uncolliding_size(a, b) == LowestDiffBit(a, b, AtomBits) * 2

\* ------------------------------------------------------------------------
\* ValueHolder
\* ------------------------------------------------------------------------
has_value(md, node) ==
    IF md = "map" THEN node.value # NULL ELSE node.value # 0

\* the value read through get_value()
get_value(md, hp, node) ==
    IF md = "map" THEN hp[node.value] ELSE node.value

\* a set_value that stores nothing
set_value_none(md, st, n, x) == st

\* set_value: map mode allocates a fresh heap cell, counter mode stores the count
set_value(md, st, n, x) ==
    IF md = "map"
    THEN [st EXCEPT !.heap = Append(st.heap, x),
                    !.edges[n].value = Len(st.heap) + 1]
    ELSE [st EXCEPT !.edges[n].value = x]

\* a swap_value that leaves both values where they are
swap_value_none(st, n, next) == st

swap_value(st, n, next) ==
    [st EXCEPT !.edges[n].value = st.edges[next].value,
               !.edges[next].value = st.edges[n].value]

\* ------------------------------------------------------------------------
\* PrefixHolder
\* ------------------------------------------------------------------------
Label(ks, node) == SubSeq(ks[node.chunk], node.begin + 1, node.end)

LabelLen(node) == node.end - node.begin

kbegin(ks, node) == ks[node.chunk][node.begin + 1]

starts_with(ks, node, x) == kbegin(ks, node) = x

insertion_hint(cm, node) == IF cm = 0 THEN NULL ELSE node.chunk

\* a setkey that leaves the last atom out of the slice
setkey_short(st, n, achunk, k, kend) ==
    [st EXCEPT !.edges[n].chunk = achunk,
               !.edges[n].begin = k,
               !.edges[n].end = IF kend > k THEN kend - 1 ELSE kend]

setkey(st, n, achunk, k, kend) ==
    [st EXCEPT !.edges[n].chunk = achunk,
               !.edges[n].begin = k,
               !.edges[n].end = kend]

psplit(st, n, next, breakIdx) ==
    [st EXCEPT !.edges[next].chunk = st.edges[n].chunk,
               !.edges[next].begin = st.edges[n].begin + breakIdx,
               !.edges[next].end = st.edges[n].end,
               !.edges[n].end = st.edges[n].begin + breakIdx]

\* ------------------------------------------------------------------------
\* TrieNode
\* ------------------------------------------------------------------------
TableSize(node) == Len(node.data)

\* a loop that copies the children to the slots they had in the old table
RECURSIVE Rehash_in_place(_, _, _, _, _)
Rehash_in_place(st, ndata, data, i, new_size) ==
    IF i > Len(data) THEN ndata
    ELSE Rehash_in_place(st, [ndata EXCEPT ![i] = data[i]], data, i + 1, new_size)

\* the loop of resize that re-places the children of the old table
RECURSIVE Rehash(_, _, _, _, _)
Rehash(st, ndata, data, i, new_size) ==
    IF i > Len(data) THEN ndata
    ELSE IF data[i] # NULL
    THEN Rehash(st,
                [ndata EXCEPT ![atom_hash(kbegin(st.keys, st.edges[data[i]]),
                                          new_size - 1) + 1] = data[i]],
                data, i + 1, new_size)
    ELSE Rehash(st, ndata, data, i + 1, new_size)

\* resize without the re-placing loop
resize_discard(st, n, new_size) ==
    [st EXCEPT !.edges[n].data = [s \in 1..new_size |-> NULL]]

resize(st, n, new_size) ==
    [st EXCEPT !.edges[n].data =
        IF new_size > Len(st.edges[n].data)
        THEN Rehash(st, [s \in 1..new_size |-> NULL], st.edges[n].data, 1, new_size)
        ELSE [s \in 1..new_size |-> NULL]]

\* the probe of find: slot is the slot x hashes to
\* a probe that takes whatever child occupies the slot
find_probe_any(es, ks, n, x, slot) ==
    IF es[n].data[slot] # NULL THEN slot ELSE NULL

find_probe(es, ks, n, x, slot) ==
    IF es[n].data[slot] # NULL /\ starts_with(ks, es[es[n].data[slot]], x)
    THEN slot
    ELSE NULL

\* TrieNode::find: the slot (1-based) holding the child for atom x, or NULL
find(es, ks, n, x) ==
    IF TableSize(es[n]) # 0
    THEN find_probe(es, ks, n, x, atom_hash(x, TableSize(es[n]) - 1) + 1)
    ELSE NULL

\* put, after the collision: the table is resized, the edge stored
put_resized(st, n, edge) ==
    [st EXCEPT !.edges[n].data[atom_hash(kbegin(st.keys, st.edges[edge]),
                                         TableSize(st.edges[n]) - 1) + 1] = edge]

\* put, once the table is not empty: hash is the slot of the edge
put_hashed(st, n, edge, hash) ==
    IF st.edges[n].data[hash] = NULL
    THEN [st EXCEPT !.edges[n].data[hash] = edge]
    ELSE put_resized(
            resize(st, n, least_uncolliding_size(
                              kbegin(st.keys, st.edges[edge]),
                              kbegin(st.keys, st.edges[st.edges[n].data[hash]]))),
            n, edge)

put_sized(st, n, edge) ==
    put_hashed(st, n, edge,
               atom_hash(kbegin(st.keys, st.edges[edge]), TableSize(st.edges[n]) - 1) + 1)

\* a put that gives an empty table four slots
put_roomy(st, n, edge) ==
    put_sized(IF TableSize(st.edges[n]) = 0 THEN resize(st, n, 4) ELSE st, n, edge)

put(st, n, edge) ==
    put_sized(IF TableSize(st.edges[n]) = 0 THEN resize(st, n, 2) ELSE st, n, edge)

swap_tables(st, n, next) ==
    [st EXCEPT !.edges[n].data = st.edges[next].data,
               !.edges[next].data = st.edges[n].data]

split(st, n, next, breakIdx) ==
    put(swap_value(swap_tables(psplit(st, n, next, breakIdx), n, next), n, next),
        n, next)

\* ------------------------------------------------------------------------
\* trie_map: storage
\* ------------------------------------------------------------------------
NoValue(md) == IF md = "map" THEN NULL ELSE 0

\* TrieNode(hint): the label fields are set later by setkey or psplit
NewNode(md, hint) ==
    [chunk |-> NULL, begin |-> 0, end |-> 0, value |-> NoValue(md),
     data |-> [s \in 1..hint |-> NULL]]

new_edge(md, st, hint) == [st EXCEPT !.edges = Append(st.edges, NewNode(md, hint))]

\* the tail of insert_infix: the label is appended to the chunk `target`
infix_append(st, suffix, n, target) ==
    setkey([st EXCEPT !.keys[target] = st.keys[target] \o suffix],
           n, target, Len(st.keys[target]), Len(st.keys[target]) + Len(suffix))

infix_back(st, suffix, n) == infix_append(st, suffix, n, Len(st.keys))

\* an inner test that takes the last chunk whatever its size
infix_fresh_packed(cm, st, suffix, n) ==
    infix_back(IF Len(st.keys) = 0
               THEN [st EXCEPT !.keys = Append(st.keys, <<>>)]
               ELSE st,
               suffix, n)

\* the inner test of insert_infix: a new chunk, or the last one
infix_fresh(cm, st, suffix, n) ==
    infix_back(IF cm = 0 \/ Len(st.keys) = 0
                  \/ Len(st.keys[Len(st.keys)]) + Len(suffix) > cm
               THEN [st EXCEPT !.keys = Append(st.keys, <<>>)]
               ELSE st,
               suffix, n)

infix_hinted(cm, st, suffix, n, target) ==
    IF target = NULL \/ Len(st.keys[target]) + Len(suffix) > cm
    THEN infix_fresh(cm, st, suffix, n)
    ELSE infix_append(st, suffix, n, target)

insert_infix(cm, st, suffix, parent, n) ==
    infix_hinted(cm, st, suffix, n,
                 IF parent = NULL THEN NULL ELSE insertion_hint(cm, st.edges[parent]))

root == 1

\* insert_edge, after new_edge(0): the new node is the last of the deque
insert_edge_new(md, cm, st, parent, suffix, value, n) ==
    set_value(md,
              IF parent # NULL
              THEN put(insert_infix(cm, st, suffix, parent, n), parent, n)
              ELSE insert_infix(cm, st, suffix, parent, n),
              n, value)

insert_edge(md, cm, st, parent, suffix, value) ==
    insert_edge_new(md, cm, new_edge(md, st, 0), parent, suffix, value,
                    Len(st.edges) + 1)

\* a policy that overwrites whatever it is asked
Replace_overwrite(policy, old, new) == new

\* ReplacePolicy: "insert" is old = n, "add" is old += n
Replace(policy, old, new) == IF policy = "add" THEN old + new ELSE new

\* an insert_value that counts the key once more
insert_value_counted(md, st, n, value, policy) ==
    IF has_value(md, st.edges[n])
    THEN IF md = "map"
         THEN [st EXCEPT !.heap[st.edges[n].value] = Replace(policy, @, value),
                         !.msize = @ + 1]
         ELSE [st EXCEPT !.edges[n].value = Replace(policy, @, value),
                         !.msize = @ + 1]
    ELSE set_value(md, st, n, value)

insert_value(md, st, n, value, policy) ==
    IF has_value(md, st.edges[n])
    THEN IF md = "map"
         THEN [st EXCEPT !.heap[st.edges[n].value] = Replace(policy, @, value)]
         ELSE [st EXCEPT !.edges[n].value = Replace(policy, @, value)]
    ELSE set_value(md, st, n, value)

\* ------------------------------------------------------------------------
\* trie_map::general_search
\* ------------------------------------------------------------------------
\* number of lockstep advances of (k, it) from (k, i)
RECURSIVE MatchLen(_, _, _, _)
MatchLen(lab, k, key, i) ==
    IF i # Len(key) /\ k # Len(lab) /\ lab[k + 1] = key[i + 1]
    THEN 1 + MatchLen(lab, k + 1, key, i + 1)
    ELSE 0

\* The outcome: which terminal action is invoked, with its arguments
\* (n, k = eit - n->kbegin(), it = atoms of the key consumed), and the
\* sequence of edgeAction invocations <<parent, slot, it>>.
Outcome(kind, n, k, i, path) ==
    [kind |-> kind, n |-> n, k |-> k, it |-> i, path |-> path]

RECURSIVE general_search(_, _, _, _, _, _, _)

\* a kernel that matches the child's label from its first atom again
search_edge_from_start(es, ks, n, k, key, i, path, next_edge) ==
    IF next_edge = NULL
    THEN Outcome("noNextEdge", n, k, i, path)
    ELSE general_search(es, ks, es[n].data[next_edge], 0, key, i + 1,
                        Append(path, <<n, next_edge, i>>))

search_edge(es, ks, n, k, key, i, path, next_edge) ==
    IF next_edge = NULL
    THEN Outcome("noNextEdge", n, k, i, path)
    ELSE general_search(es, ks, es[n].data[next_edge], 1, key, i + 1,
                        Append(path, <<n, next_edge, i>>))

search_end(es, ks, n, k, key, i, path) ==
    IF i = Len(key)
    THEN IF k = LabelLen(es[n])
         THEN Outcome("exactMatch", n, k, i, path)
         ELSE Outcome("endInTheMiddle", n, k, i, path)
    ELSE IF k # LabelLen(es[n])
    THEN Outcome("splitInTheMiddle", n, k, i, path)
    ELSE search_edge(es, ks, n, k, key, i, path, find(es, ks, n, key[i + 1]))

search_match(es, ks, n, k0, key, i0, path, m) ==
    search_end(es, ks, n, k0 + m, key, i0 + m, path)

general_search(es, ks, n, k0, key, i0, path) ==
    search_match(es, ks, n, k0, key, i0, path,
                 MatchLen(Label(ks, es[n]), k0, key, i0))

Search(es, ks, n, key) == general_search(es, ks, n, 0, key, 0, <<>>)

\* ------------------------------------------------------------------------
\* trie_map::insert / add
\* ------------------------------------------------------------------------
Store(es, ks, hp, sz) == [edges |-> es, keys |-> ks, heap |-> hp, msize |-> sz]

Bump(st) == [st EXCEPT !.msize = @ + 1]

Suffix(key, i) == SubSeq(key, i + 1, Len(key))

\* n->split(new_edge(hint), eit - n->kbegin())
split_new(md, st, n, hint, k) ==
    split(new_edge(md, st, hint), n, Len(st.edges) + 1, k)

\* the four terminal actions of insert
insert_at(md, cm, st, key, value, policy, r) ==
    CASE r.kind = "exactMatch" ->
            insert_value(md, st, r.n, value, policy)
      [] r.kind = "noNextEdge" ->
            Bump(insert_edge(md, cm, st, r.n, Suffix(key, r.it), value))
      [] r.kind = "endInTheMiddle" ->
            Bump(set_value(md, split_new(md, st, r.n, 1, r.k), r.n, value))
      [] r.kind = "splitInTheMiddle" ->
            Bump(insert_edge(md, cm, split_new(md, st, r.n, 2, r.k), r.n,
                             Suffix(key, r.it), value))

insert(md, cm, st, key, value, policy) ==
    IF Len(st.edges) = 0
    THEN Bump(insert_edge(md, cm, st, NULL, key, value))
    ELSE insert_at(md, cm, st, key, value, policy,
                   Search(st.edges, st.keys, root, key))

\* ------------------------------------------------------------------------
\* TrieIteratorInternal
\* ------------------------------------------------------------------------
\* A traverse_ptr is <<owner, slot>>: the address of slot `slot` (1-based) of
\* owner's table; slot = size + 1 is owner->end().
Internal(a_root) == [base_prefix |-> <<>>, m_root |-> a_root, m_ptrs |-> <<>>]

PtrValue(es, p) == es[p[1]].data[p[2]]

ii_get(es, ii, i) ==
    IF Len(ii.m_ptrs) + i > 0 THEN PtrValue(es, ii.m_ptrs[Len(ii.m_ptrs) + i])
    ELSE IF Len(ii.m_ptrs) + i = 0 THEN ii.m_root ELSE NULL

\* the first non-empty slot of node x at or after `from`, or x->end()
RECURSIVE SkipEmpty(_, _, _)
SkipEmpty(es, x, from) ==
    IF from <= Len(es[x].data) /\ es[x].data[from] = NULL
    THEN SkipEmpty(es, x, from + 1)
    ELSE from

Front(sq) == SubSeq(sq, 1, Len(sq) - 1)

step_down_to(es, ii, x, it) ==
    IF it # Len(es[x].data) + 1
    THEN [ok |-> TRUE, ii |-> [ii EXCEPT !.m_ptrs = Append(@, <<x, it>>)]]
    ELSE [ok |-> FALSE, ii |-> ii]

step_down(es, ii) ==
    step_down_to(es, ii, ii_get(es, ii, 0), SkipEmpty(es, ii_get(es, ii, 0), 1))

step_fore_to(es, ii, up, it) ==
    [ok |-> it # Len(es[up].data) + 1,
     ii |-> [ii EXCEPT !.m_ptrs[Len(ii.m_ptrs)] = <<up, it>>]]

\* a step_fore that starts over at the first slot of the parent
step_fore_from_first(es, ii, up) ==
    IF up # NULL
    THEN step_fore_to(es, ii, up, SkipEmpty(es, up, 1))
    ELSE [ok |-> FALSE, ii |-> ii]

step_fore_from(es, ii, up) ==
    IF up # NULL
    THEN step_fore_to(es, ii, up, SkipEmpty(es, up, ii.m_ptrs[Len(ii.m_ptrs)][2] + 1))
    ELSE [ok |-> FALSE, ii |-> ii]

step_fore(es, ii) == step_fore_from(es, ii, ii_get(es, ii, -1))

step_up(es, ii) == step_fore(es, [ii EXCEPT !.m_ptrs = Front(@)])

\* the loop  while (!m_ptrs.empty()) { if (step_up()) return; }  m_root = nullptr;
RECURSIVE Unwind(_, _)

unwind_step(es, r) == IF r.ok THEN r.ii ELSE Unwind(es, r.ii)

Unwind(es, ii) ==
    IF ii.m_ptrs # <<>>
    THEN unwind_step(es, step_up(es, ii))
    ELSE [ii EXCEPT !.m_root = NULL]

next_fore(es, f) == IF f.ok THEN f.ii ELSE Unwind(es, f.ii)

\* next without the step_fore at the current level
next_down_skip(es, d) == IF d.ok THEN d.ii ELSE Unwind(es, d.ii)

next_down(es, d) == IF d.ok THEN d.ii ELSE next_fore(es, step_fore(es, d.ii))

next(es, ii) == next_down(es, step_down(es, ii))

RECURSIVE next_value(_, _, _)

next_value_at(md, es, n) ==
    IF n.m_root # NULL /\ ~has_value(md, es[ii_get(es, n, 0)])
    THEN next_value(md, es, n)
    ELSE [ok |-> n.m_root # NULL, ii |-> n]

next_value(md, es, ii) == next_value_at(md, es, next(es, ii))

RECURSIVE PathLabels(_, _, _, _)
PathLabels(es, ks, ptrs, i) ==
    IF i > Len(ptrs) THEN <<>>
    ELSE Label(ks, es[PtrValue(es, ptrs[i])]) \o PathLabels(es, ks, ptrs, i + 1)

get_key_str(es, ks, ii) ==
    ii.base_prefix \o Label(ks, es[ii.m_root]) \o PathLabels(es, ks, ii.m_ptrs, 1)

ii_get_value(md, es, hp, ii) ==
    get_value(md, hp, es[IF ii.m_ptrs = <<>> THEN ii.m_root
                         ELSE PtrValue(es, ii.m_ptrs[Len(ii.m_ptrs)])])

\* ------------------------------------------------------------------------
\* trie_map::iterator: <<>> is the iterator with a null _impl (end()),
\* <<ii>> the iterator whose _impl points to the traversal state ii.
\* ------------------------------------------------------------------------
EndIt == <<>>

increment_to(r) == IF r.ok THEN <<r.ii>> ELSE EndIt

\* operator++
Increment(md, es, it) ==
    IF it # EndIt THEN increment_to(next_value(md, es, it[1])) ELSE it

\* normalize() on an iterator whose _impl is not null
normalize(md, es, it) ==
    IF ~has_value(md, es[ii_get(es, it[1], 0)]) THEN Increment(md, es, it) ELSE it

\* A second iterator made from the iterator `it`: its _impl, and whether that
\* _impl is the traversal state `it` owns too.  The implicit copy constructor
\* copies the shared_ptr; clone() allocates a copy of the traversal state and
\* normalizes it.
copy(it) == [impl |-> it, shared |-> it # EndIt]

\* a clone() that hands out the traversal state of the original
clone_shared(md, es, it) == copy(it)

clone(md, es, it) ==
    IF it = EndIt THEN [impl |-> EndIt, shared |-> FALSE]
    ELSE [impl |-> normalize(md, es, it), shared |-> FALSE]

\* operator== of two iterators
Equal(es, a, b) ==
    \/ a = EndIt /\ b = EndIt
    \/ a # EndIt /\ b # EndIt /\ ii_get(es, a[1], 0) = ii_get(es, b[1], 0)

\* ++ on the second iterator: <<first, second>> afterwards.  On a shared
\* traversal state the step is seen through the first iterator too, and when
\* the state is exhausted only the second iterator's _impl is reset.
advance_shared(r) ==
    IF r.ok THEN <<(<<r.ii>>), (<<r.ii>>)>> ELSE <<(<<r.ii>>), EndIt>>

advance_second(md, es, shared, it, it2) ==
    IF it2 = EndIt THEN <<it, it2>>
    ELSE IF shared THEN advance_shared(next_value(md, es, it[1]))
    ELSE <<it, Increment(md, es, it2)>>

\* ------------------------------------------------------------------------
\* Undefined behaviour: the outcomes a build can produce
\* ------------------------------------------------------------------------
\* Dereferencing a null _impl (iterator::normalize, or the base_prefix copy in
\* find_prefix_int after normalize() has reset _impl): the call faults, or
\* the access is not performed and the call goes on with the null _impl.
NullDerefOutcomes == {"crash", "proceed"}

\* The value read from the local `inputEnd` of find_prefix_int when no edge
\* was followed, so that edgeAction never assigned it.  A pointer KeyIterator
\* is indeterminate; a library iterator is singular, and std::copy(it, inputEnd)
\* on it copies nothing when the loop counts inputEnd - it and runs off the
\* query when the loop tests it != inputEnd.  The outcomes: an offset into the
\* query (that many atoms are copied into base_prefix), or -1 (the copy runs
\* off the query and the call faults).
UninitOutcomes(key) == (-1)..Len(key)

\* ------------------------------------------------------------------------
\* trie_map: lookups.  A value_type* is a heap address in map mode and the
\* address of the node's count in counter mode.
\* ------------------------------------------------------------------------
addressof_value(md, es, n) == IF md = "map" THEN es[n].value ELSE n

Deref(md, es, hp, p) == IF md = "map" THEN hp[p] ELSE es[p].value

\* a match that also accepts a key ending inside a label
Hit_inside(md, es, r) ==
    r.kind \in {"exactMatch", "endInTheMiddle"} /\ has_value(md, es[r.n])

\* the exactMatch action of get, contains, find and find_prefix_int tests this
Hit(md, es, r) == r.kind = "exactMatch" /\ has_value(md, es[r.n])

get_at(md, es, r) == IF Hit(md, es, r) THEN addressof_value(md, es, r.n) ELSE NULL

get(md, st, key) ==
    IF Len(st.edges) = 0 THEN NULL
    ELSE get_at(md, st.edges, Search(st.edges, st.keys, root, key))

contains(md, st, key) ==
    IF Len(st.edges) = 0 THEN FALSE
    ELSE Hit(md, st.edges, Search(st.edges, st.keys, root, key))

\* at without the throw
at_result_silent(result) == [res |-> result, fault |-> "none"]

at_result(result) ==
    IF result = NULL
    THEN [res |-> NULL, fault |-> "out_of_range"]
    ELSE [res |-> result, fault |-> "none"]

\* at / operator[]: the pointer, or the out_of_range exception
at(md, st, key) == at_result(get(md, st, key))

\* the edgeAction of find: output->push(x) for every followed edge
RECURSIVE PushAll(_, _, _)
\* an edge action that pushes nothing
PushAll_none(ii, path, i) == ii

PushAll(ii, path, i) ==
    IF i > Len(path) THEN ii
    ELSE PushAll([ii EXCEPT !.m_ptrs = Append(@, <<path[i][1], path[i][2]>>)],
                 path, i + 1)

\* iterator(IteratorPtr a_impl) : _impl(a_impl) { normalize(); }
MakeIterator(md, es, impl, nd) ==
    IF impl = EndIt
    THEN [it |-> EndIt, fault |-> IF nd = "crash" THEN "null_deref" ELSE "none"]
    ELSE [it |-> normalize(md, es, impl), fault |-> "none"]

\* find without the edgeAction: the cursor is rooted at the reached node
find_at_unpushed(md, es, r, nd) ==
    MakeIterator(md, es,
                 IF Hit(md, es, r) THEN <<Internal(r.n)>> ELSE EndIt,
                 nd)

find_at(md, es, r, nd) ==
    MakeIterator(md, es,
                 IF Hit(md, es, r) THEN <<PushAll(Internal(root), r.path, 1)>>
                 ELSE EndIt,
                 nd)

\* find that builds its result with iterator(IteratorPtr) on an empty container too
find_it_unguarded(md, st, key, nd) ==
    IF Len(st.edges) = 0 THEN MakeIterator(md, st.edges, EndIt, nd)
    ELSE find_at(md, st.edges, Search(st.edges, st.keys, root, key), nd)

find_it(md, st, key, nd) ==
    IF Len(st.edges) = 0 THEN [it |-> EndIt, fault |-> "none"]
    ELSE find_at(md, st.edges, Search(st.edges, st.keys, root, key), nd)

begin(md, st) ==
    IF Len(st.edges) = 0 THEN EndIt
    ELSE normalize(md, st.edges, <<Internal(root)>>)

\* the end of find_prefix_int: output is normalized, inputEnd is known
prefix_copy(key, fired, output, nd, inputEnd) ==
    IF output = EndIt
    THEN [it |-> EndIt, fired |-> fired,
          fault |-> IF nd = "crash" THEN "null_deref" ELSE "none"]
    ELSE IF inputEnd < 0
    THEN [it |-> EndIt, fired |-> fired, fault |-> "uninitialized_read"]
    ELSE [it |-> <<[output[1] EXCEPT !.base_prefix = SubSeq(key, 1, inputEnd)]>>,
          fired |-> fired, fault |-> "none"]

\* find_prefix_int whose exactMatch action does not test has_value
prefix_at_unvalued(md, es, key, r, nd, u) ==
    IF r.kind \in {"exactMatch", "endInTheMiddle"}
    THEN prefix_copy(key, IF r.kind = "exactMatch" THEN 1 ELSE 0,
                     normalize(md, es, <<Internal(r.n)>>), nd,
                     IF r.path = <<>> THEN u ELSE r.path[Len(r.path)][3])
    ELSE [it |-> EndIt, fired |-> 0, fault |-> "none"]

prefix_at(md, es, key, r, nd, u) ==
    IF r.kind \in {"exactMatch", "endInTheMiddle"}
    THEN prefix_copy(key, IF Hit(md, es, r) THEN 1 ELSE 0,
                     normalize(md, es, <<Internal(r.n)>>), nd,
                     IF r.path = <<>> THEN u ELSE r.path[Len(r.path)][3])
    ELSE [it |-> EndIt, fired |-> 0, fault |-> "none"]

\* find_prefix_int: nd and u are the outcomes of the two undefined reads
find_prefix_int(md, st, root_node, key, nd, u) ==
    prefix_at(md, st.edges, key, Search(st.edges, st.keys, root_node, key), nd, u)

\* The three shapes of the onExactMatch sink.  "callable": the generic
\* overload, the callable is invoked by the exactMatch action; "bool": the
\* bool & overloads, which clear the flag and pass a callable that sets it;
\* "nullptr": the no-op sink.  b0 is the value the caller's bool held.
Sinks == {"callable", "bool", "nullptr"}

prefix_sink(sink, b0, r) ==
    [it    |-> r.it,
     fired |-> IF sink = "callable" THEN r.fired ELSE 0,
     flag  |-> IF sink = "bool" THEN r.fired = 1 ELSE b0,
     fault |-> r.fault]

find_prefix(md, st, key, sink, b0, nd, u) ==
    IF Len(st.edges) = 0
    THEN [it |-> EndIt, fired |-> 0, flag |-> b0, fault |-> "none"]
    ELSE prefix_sink(sink, b0, find_prefix_int(md, st, root, key, nd, u))

\* find_prefix(base, it, kend, exactMatch): the search starts at the node the
\* cursor base stands on
find_prefix_from(md, st, base, key, nd, u) ==
    IF base = EndIt \/ ii_get(st.edges, base[1], 0) = NULL
    THEN [it |-> EndIt, fired |-> 0, fault |-> "none"]
    ELSE find_prefix_int(md, st, ii_get(st.edges, base[1], 0), key, nd, u)

\* ------------------------------------------------------------------------
\* The reference map
\* ------------------------------------------------------------------------
RefPresent(md, rf, k) ==
    rf[k] # <<>> /\ (md = "counter" => rf[k][1] # 0)

RefStore(md, rf, k, value, policy) ==
    IF RefPresent(md, rf, k)
    THEN [rf EXCEPT ![k] = <<Replace(policy, rf[k][1], value)>>]
    ELSE [rf EXCEPT ![k] = <<value>>]

\* ------------------------------------------------------------------------
\* Initial states and actions
\* ------------------------------------------------------------------------
Values(md) == IF md = "map" THEN 1..MaxVal ELSE 0..MaxVal

Idle ==
    [op |-> "idle", key |-> <<>>, res |-> NULL, it |-> EndIt, seen |-> <<>>,
     fault |-> "none", sink |-> "none", fired |-> 0, flag |-> FALSE, flag0 |-> FALSE,
     dup |-> "none", it2 |-> EndIt, shared |-> FALSE]

Cur == Store(edges, keys, heap, msize)

\* what the client reads through key() and value() at a position that is not end()
Observe(it, seen) ==
    IF it = EndIt THEN seen
    ELSE Append(seen, <<get_key_str(edges, keys, it[1]),
                        ii_get_value(mode, edges, heap, it[1])>>)

Init ==
    /\ mode \in Modes
    /\ cmin \in {0, ChunkSize}
    /\ edges = <<>>
    /\ keys = <<>>
    /\ heap = <<>>
    /\ msize = 0
    /\ ref = [k \in Keys |-> <<>>]
    /\ ret = Idle

Commit(key, st, rf) ==
    /\ ret.op = "idle"
    /\ Len(st.edges) <= MaxEdges
    /\ rf[key][1] <= MaxVal
    /\ edges' = st.edges
    /\ keys' = st.keys
    /\ heap' = st.heap
    /\ msize' = st.msize
    /\ ref' = rf
    /\ UNCHANGED <<mode, cmin, ret>>

Mutate(key, value, policy) ==
    Commit(key, insert(mode, cmin, Cur, key, value, policy),
           RefStore(mode, ref, key, value, policy))

Insert == \E key \in Keys : \E value \in Values(mode) : Mutate(key, value, "insert")

Add == \E key \in Keys : \E value \in Values(mode) : Mutate(key, value, "add")

\* a call that does not change the container returns: the client sees r
\* a lookup that creates the key it was asked for, as std::map::operator[] does
Return_creating(r) ==
    /\ ret.op = "idle"
    /\ ret' = r
    /\ edges' = insert(mode, cmin, Cur, r.key, 0, "add").edges
    /\ keys' = insert(mode, cmin, Cur, r.key, 0, "add").keys
    /\ heap' = insert(mode, cmin, Cur, r.key, 0, "add").heap
    /\ msize' = insert(mode, cmin, Cur, r.key, 0, "add").msize
    /\ UNCHANGED <<mode, cmin, ref>>

Return(r) ==
    /\ ret.op = "idle"
    /\ ret' = r
    /\ UNCHANGED <<container, ref>>

Get ==
    \E key \in Keys :
        Return([Idle EXCEPT !.op = "get", !.key = key, !.res = get(mode, Cur, key)])

Contains ==
    \E key \in Keys :
        Return([Idle EXCEPT !.op = "contains", !.key = key,
                            !.flag = contains(mode, Cur, key)])

AtReturn(op, key, r) ==
    Return([Idle EXCEPT !.op = op, !.key = key, !.res = r.res, !.fault = r.fault])

\* at(key) and operator[](key), which forwards to at
At ==
    \E key \in Keys : \E op \in {"at", "operator[]"} :
        AtReturn(op, key, at(mode, Cur, key))

FindReturn(key, r) ==
    Return([Idle EXCEPT !.op = "find", !.key = key, !.it = r.it,
                        !.fault = r.fault, !.seen = Observe(r.it, <<>>)])

Find ==
    \E key \in Keys : \E nd \in NullDerefOutcomes :
        FindReturn(key, find_it(mode, Cur, key, nd))

FindPrefixReturn(key, sink, b0, r) ==
    Return([Idle EXCEPT !.op = "find_prefix", !.key = key, !.it = r.it,
                        !.fault = r.fault, !.sink = sink,
                        !.fired = r.fired, !.flag = r.flag, !.flag0 = b0,
                        !.seen = Observe(r.it, <<>>)])

FindPrefix ==
    \E key \in Keys : \E sink \in Sinks :
    \E b0 \in (IF sink = "bool" THEN BOOLEAN ELSE {FALSE}) :
    \E nd \in NullDerefOutcomes : \E u \in UninitOutcomes(key) :
        FindPrefixReturn(key, sink, b0, find_prefix(mode, Cur, key, sink, b0, nd, u))

BeginReturn(it) ==
    Return([Idle EXCEPT !.op = "begin", !.it = it, !.seen = Observe(it, <<>>)])

Begin == BeginReturn(begin(mode, Cur))

AdvanceTo(it) ==
    /\ ret' = [ret EXCEPT !.it = it, !.seen = Observe(it, ret.seen)]
    /\ UNCHANGED <<container, ref>>

\* ++it on the iterator the last call returned, while it != end()
Advance ==
    /\ ret.op \in {"begin", "find", "find_prefix"}
    /\ ret.fault = "none"
    /\ ret.it # EndIt
    /\ AdvanceTo(Increment(mode, edges, ret.it))

Positioned ==
    /\ ret.op = "begin"
    /\ ret.fault = "none"
    /\ ret.it # EndIt
    /\ ret.dup = "none"

\* ++it while no second iterator exists
AdvanceFirst == Positioned /\ Advance

Second(how, c) ==
    /\ Positioned
    /\ ret' = [ret EXCEPT !.dup = how, !.it2 = c.impl, !.shared = c.shared]
    /\ UNCHANGED <<container, ref>>

\* iterator c = it.clone();
Clone == Second("clone", clone(mode, edges, ret.it))

\* iterator c = it;
Copy == Second("copy", copy(ret.it))

AdvanceSecondTo(both) ==
    /\ ret' = [ret EXCEPT !.it = both[1], !.it2 = both[2]]
    /\ UNCHANGED <<container, ref>>

\* ++c on the second iterator
AdvanceSecond ==
    /\ ret.dup # "none"
    /\ ret.it2 # EndIt
    /\ AdvanceSecondTo(advance_second(mode, edges, ret.shared, ret.it, ret.it2))

\* the client drops the result (and the iterator) of the last call
Discard ==
    /\ ret.op # "idle"
    /\ ret' = Idle
    /\ UNCHANGED <<container, ref>>

\* insert or add while the client holds the pointer a get returned
CommitHeld(key, st, rf) ==
    /\ ret.op = "get"
    /\ ret.res # NULL
    /\ Len(st.edges) <= MaxEdges
    /\ rf[key][1] <= MaxVal
    /\ edges' = st.edges
    /\ keys' = st.keys
    /\ heap' = st.heap
    /\ msize' = st.msize
    /\ ref' = rf
    /\ UNCHANGED <<mode, cmin, ret>>

MutateHeld(key, value, policy) ==
    CommitHeld(key, insert(mode, cmin, Cur, key, value, policy),
               RefStore(mode, ref, key, value, policy))

InsertHeld ==
    \E key \in Keys : \E value \in Values(mode) : MutateHeld(key, value, "insert")

AddHeld ==
    \E key \in Keys : \E value \in Values(mode) : MutateHeld(key, value, "add")

FindPrefixFromReturn(key, base, r) ==
    /\ ret' = [Idle EXCEPT !.op = "find_prefix_from", !.key = key, !.it = r.it,
                           !.fault = r.fault, !.sink = "callable",
                           !.fired = r.fired, !.it2 = base,
                           !.seen = Observe(r.it, <<>>)]
    /\ UNCHANGED <<container, ref>>

\* find_prefix(c, key, sink) with the cursor c that begin() returned, possibly
\* advanced, possibly to end()
FindPrefixFrom ==
    /\ ret.op = "begin"
    /\ ret.fault = "none"
    /\ \E key \in Keys : \E nd \in NullDerefOutcomes : \E u \in UninitOutcomes(key) :
          FindPrefixFromReturn(key, ret.it,
                               find_prefix_from(mode, Cur, ret.it, key, nd, u))

\* ++it on the iterator find_prefix(c, ...) returned, while it != end()
AdvanceFrom ==
    /\ ret.op = "find_prefix_from"
    /\ ret.fault = "none"
    /\ ret.it # EndIt
    /\ AdvanceTo(Increment(mode, edges, ret.it))

\* the atoms stored in the label arena
StoredAtoms(ks) == UNION {{ks[c][i] : i \in 1..Len(ks[c])} : c \in 1..Len(ks)}

OneCharType(atoms) == atoms \subseteq SignedAtoms \/ atoms \subseteq UnsignedAtoms

TableCommit(st) ==
    /\ ret.op = "idle"
    /\ Len(st.edges) <= MaxTableEdges
    /\ edges' = st.edges
    /\ keys' = st.keys
    /\ heap' = st.heap
    /\ msize' = st.msize
    /\ UNCHANGED <<mode, cmin, ref, ret>>

\* insert(key, 1) of a key over the wide atom set
TableInsert ==
    \E key \in TableKeys :
        /\ OneCharType(StoredAtoms(keys) \cup {key[i] : i \in 1..Len(key)})
        /\ TableCommit(insert(mode, cmin, Cur, key, 1, "insert"))

NextTable == TableInsert

SpecTable == Init /\ [][NextTable]_vars

\* insert and add alone
Next == Insert \/ Add

Spec == Init /\ [][Next]_vars

\* insert, add and the value lookups
NextLookup == Insert \/ Add \/ Get \/ Contains \/ At \/ Discard

SpecLookup == Init /\ [][NextLookup]_vars

\* insert and add, also while a pointer returned by get is held
NextHeld == Insert \/ Add \/ Get \/ InsertHeld \/ AddHeld \/ Discard

SpecHeld == Init /\ [][NextHeld]_vars

\* the lookups of a freshly constructed container
NextFresh == Get \/ Contains \/ Find \/ FindPrefix \/ Discard

SpecFresh == Init /\ [][NextFresh]_vars

\* insert, add, begin, the iteration, and a second iterator made by copy or clone
NextClone ==
    Insert \/ Add \/ Begin \/ AdvanceFirst \/ Clone \/ Copy \/ AdvanceSecond \/ Discard

SpecClone == Init /\ [][NextClone]_vars

\* insert, add, find, begin and the iteration
NextFind == Insert \/ Add \/ Find \/ Begin \/ Advance \/ Discard

SpecFind == Init /\ [][NextFind]_vars

\* insert, add, find_prefix and the iteration
NextPrefix == Insert \/ Add \/ FindPrefix \/ Advance \/ Discard

SpecPrefix == Init /\ [][NextPrefix]_vars

\* insert, add and every lookup
NextRead ==
    Insert \/ Add \/ Get \/ Contains \/ At \/ Find \/ FindPrefix \/ Begin
        \/ Advance \/ Discard

SpecRead == Init /\ [][NextRead]_vars

\* insert and add on containers of three chunk sizes: none, one shorter than
\* the longest key, one longer
InitArena ==
    /\ mode \in Modes
    /\ cmin \in {0, SmallChunk, ChunkSize}
    /\ edges = <<>>
    /\ keys = <<>>
    /\ heap = <<>>
    /\ msize = 0
    /\ ref = [k \in Keys |-> <<>>]
    /\ ret = Idle

NextArena == Insert \/ Add

SpecArena == InitArena /\ [][NextArena]_vars

\* insert, add, begin, the iteration, and find_prefix from the iterator
NextCursor ==
    Insert \/ Add \/ Begin \/ Advance \/ FindPrefixFrom \/ AdvanceFrom \/ Discard

SpecCursor == Init /\ [][NextCursor]_vars

\* ------------------------------------------------------------------------
\* Properties.  `ref` is the reference map; `ret` is what the client saw.
\* ------------------------------------------------------------------------
\* k was passed to insert or add
Inserted(k) == ref[k] # <<>>

\* k is a present key: inserted, and in counter mode with a count that is not 0
Present(k) == RefPresent(mode, ref, k)

Stored(k) == ref[k][1]

IsPrefix(q, k) == Len(q) <= Len(k) /\ SubSeq(k, 1, Len(q)) = q

SeenKeys == {ret.seen[i][1] : i \in 1..Len(ret.seen)}

\* no key() value was produced twice
SeenOnce ==
    \A i, j \in 1..Len(ret.seen) : ret.seen[i][1] = ret.seen[j][1] => i = j

\* every position visited showed a present key with the value stored for it
SeenStored ==
    \A i \in 1..Len(ret.seen) :
        /\ ret.seen[i][1] \in Keys
        /\ Present(ret.seen[i][1])
        /\ ret.seen[i][2] = Stored(ret.seen[i][1])

\* C1: in map mode, after any sequence of insert and add calls, get(k) returns
\* the value most recently stored for k and contains(k) is true when k was
\* inserted; get(k) is absent and contains(k) is false when k was never
\* inserted, also when k is a strict prefix or an extension of an inserted key
\* or the empty key.
C1_LookupAgreesWithReference ==
    /\ (mode = "map" /\ ret.op = "get") =>
          IF Present(ret.key)
          THEN ret.res # NULL /\ heap[ret.res] = Stored(ret.key)
          ELSE ret.res = NULL
    /\ (mode = "map" /\ ret.op = "contains") => (ret.flag <=> Present(ret.key))

\* get of a never-inserted strict prefix of an inserted key, the empty key present
C1_Witness ==
    /\ mode = "map"
    /\ ret.op = "get"
    /\ ret.key = <<1>>
    /\ ret.res = NULL
    /\ Present(<<1, 3>>)
    /\ Present(<<>>)

\* C2: after any sequence of insert and add calls, size() is the number of
\* distinct keys that have been inserted (a new key that ends at an existing
\* node without a value counts; a key that already has a value does not count
\* again).
C2_SizeCountsInsertedKeys ==
    msize = Cardinality({k \in Keys : Inserted(k)})

C4_FindPrefixEnumeratesExtensions ==
    ret.op = "find_prefix" =>
        /\ ret.fault = "none"
        /\ SeenStored
        /\ SeenOnce
        /\ (ret.it = EndIt =>
               SeenKeys = {k \in Keys : Present(k) /\ IsPrefix(ret.key, k)})

C6_FindMissReturnsEnd ==
    (ret.op = "find" /\ edges # <<>> /\ ~Present(ret.key)) =>
        /\ ret.fault = "none"
        /\ ret.it = EndIt

\* C7: in a container that is not empty, find_prefix(q, sink) invokes a
\* callable sink exactly once when q is a present key and never otherwise, and
\* leaves a bool sink true on return iff q is a present key.
C7_SinkFiresIffPresent ==
    (ret.op = "find_prefix" /\ edges # <<>>) =>
        /\ ret.sink = "callable" =>
              ret.fired = (IF Present(ret.key) THEN 1 ELSE 0)
        /\ (ret.sink = "bool" /\ ret.fault = "none") =>
              (ret.flag <=> Present(ret.key))

\* a bool sink that held true, cleared for a query ending at a branching node
\* that has no value
C7_Witness ==
    /\ ret.op = "find_prefix"
    /\ ret.sink = "bool"
    /\ ret.flag0
    /\ ~ret.flag
    /\ ret.fault = "none"
    /\ ret.key = <<1>>
    /\ ~Present(<<1>>)
    /\ Present(<<1, 1>>)
    /\ Present(<<1, 3>>)

\* C8: find_prefix(q, b) with a bool output parameter always writes b: when q
\* is not a present key, b is false on return whatever b held before the call,
\* in every container state, the empty container included.
C8_BoolSinkAlwaysWritten ==
    (ret.op = "find_prefix" /\ ret.sink = "bool" /\ ret.fault = "none"
        /\ ~Present(ret.key)) => ~ret.flag

\* C9: for every present key k, the cursor returned by find_prefix(k) is at k
\* before any increment: its key() is k and its value() is the value stored
\* for k.
C9_FindPrefixStartsAtKey ==
    (ret.op = "find_prefix" /\ Present(ret.key)) =>
        /\ ret.fault = "none"
        /\ ret.seen # <<>>
        /\ ret.seen[1] = <<ret.key, Stored(ret.key)>>

\* C10: at(k) and operator[](k) return the stored value when k is present and
\* fail with out_of_range when k is absent; the failing call leaves the
\* container unchanged.
C10_AtReturnsOrThrows ==
    /\ [](ret.op \in {"at", "operator[]"} =>
            IF Present(ret.key)
            THEN /\ ret.fault = "none"
                 /\ Deref(mode, edges, heap, ret.res) = Stored(ret.key)
            ELSE ret.fault = "out_of_range")
    /\ [][ret'.fault = "out_of_range" => UNCHANGED container]_vars

\* operator[] failing on a branching node that has no value
C10_Witness ==
    /\ ret.op = "operator[]"
    /\ ret.fault = "out_of_range"
    /\ ret.key = <<1>>
    /\ Present(<<1, 1>>)
    /\ Present(<<1, 3>>)

\* what get(k) shows in container st: <<>> when absent, <<v>> when it points to v
Lookup(st, k) ==
    IF get(mode, st, k) = NULL THEN <<>>
    ELSE <<Deref(mode, st.edges, st.heap, get(mode, st, k))>>

CurNext == Store(edges', keys', heap', msize')

\* C11: insert(k, v) on a key that has a value overwrites it with v; add(k, v)
\* on a key that has a value replaces it with old + v, and on a key without a
\* value sets it to v.  In counter mode the count that get(k) shows follows
\* these policies, so n calls of add(k) (value 1) make it n and any number of
\* insert(k) calls leave it at 1.
C11_ReplacePolicies ==
    /\ [][\A k \in Keys : \A v \in Values(mode) \ {0} :
            /\ Mutate(k, v, "insert") => Lookup(CurNext, k) = <<v>>
            /\ Mutate(k, v, "add") =>
                  Lookup(CurNext, k) =
                      IF Lookup(Cur, k) = <<>> THEN <<v>>
                      ELSE <<Lookup(Cur, k)[1] + v>>]_vars
    /\ [](\A k \in Keys : Present(k) => Lookup(Cur, k) = <<Stored(k)>>)

\* counter mode: a count of 2 on a key whose extension is present too
C11_Witness ==
    /\ mode = "counter"
    /\ Lookup(Cur, <<1>>) = <<2>>
    /\ Lookup(Cur, <<1, 3>>) = <<1>>
    /\ Stored(<<1>>) = 2

\* C12: in both value modes, a reference to the value of key k obtained from
\* get(k) stays valid across later insert and add calls on any keys: it keeps
\* designating the value slot of k, the location a fresh get(k) returns,
\* holding k's current value, also after an insert that splits the node at
\* which k ends.
C12_ReferenceStable ==
    (ret.op = "get" /\ ret.res # NULL /\ Present(ret.key)) =>
        /\ ret.res = get(mode, Cur, ret.key)
        /\ Deref(mode, edges, heap, ret.res) = Stored(ret.key)

\* the same, for the heap-allocated values of map mode alone
C12_MapReferenceStable == mode = "map" => C12_ReferenceStable

\* C13: on a freshly constructed container, in map mode and in counter mode,
\* for every key, the empty key included: get returns absent, contains returns
\* false, find returns end(), find_prefix returns end(), and size() is 0.
C13_FreshContainerIsEmpty ==
    edges = <<>> =>
        /\ msize = 0
        /\ ret.op = "get" => ret.res = NULL
        /\ ret.op = "contains" => ~ret.flag
        /\ ret.op \in {"find", "find_prefix"} =>
              ret.it = EndIt /\ ret.fault = "none"

\* find of the empty key on a fresh counter-mode container
C13_Witness ==
    /\ edges = <<>>
    /\ mode = "counter"
    /\ ret.op = "find"
    /\ ret.key = <<>>
    /\ ret.it = EndIt

KeyOf(it) == get_key_str(edges, keys, it[1])

ValueOf(it) == ii_get_value(mode, edges, heap, it[1])

\* C14: clone() of a positioned iterator yields an independent iterator: it
\* compares equal to the original and has the same key() and value(), and
\* advancing the clone any number of times does not change the original's
\* position, key() or value(); advancing a plain copy moves the original.
C14_CloneIsIndependent ==
    /\ [][(ret.dup = "none" /\ ret'.dup = "clone") =>
            /\ ret'.it = ret.it
            /\ ret'.it2 # EndIt
            /\ Equal(edges, ret'.it, ret'.it2)
            /\ KeyOf(ret'.it2) = KeyOf(ret.it)
            /\ ValueOf(ret'.it2) = ValueOf(ret.it)]_vars
    /\ [][(ret.dup = "clone" /\ ret'.dup = "clone") =>
            /\ ret'.it = ret.it
            /\ ret'.it2 # ret.it2]_vars
    /\ [][(ret.dup = "copy" /\ ret'.dup = "copy") => ret'.it # ret.it]_vars

\* the clone was advanced to end() from the first of three positions
C14_Witness ==
    /\ ret.dup = "clone"
    /\ ret.it2 = EndIt
    /\ ret.it # EndIt
    /\ Len(ret.seen) = 1
    /\ Cardinality({k \in Keys : Present(k)}) = 3

Nodes == 1..Len(edges)

Children(n) == {edges[n].data[i] : i \in 1..Len(edges[n].data)} \ {NULL}

FirstAtom(n) == kbegin(keys, edges[n])

RECURSIVE Reach(_)
Reach(n) == {n} \cup UNION {Reach(c) : c \in Children(n)}

\* C15: after any sequence of inserts, no node has two children whose labels
\* begin with the same atom, and no child ever disappears from its parent's
\* table: every node created remains reachable from the root.
C15_ChildrenDistinctAndKept ==
    /\ \A n \in Nodes : \A c, d \in Children(n) :
           FirstAtom(c) = FirstAtom(d) => c = d
    /\ edges # <<>> => Reach(root) = Nodes

\* a root with three children, the last attached after a table growth
C15_Witness ==
    /\ Len(edges) = 4
    /\ Cardinality(Children(root)) = 3
    /\ Len(edges[root].data) = 4

PowersOfTwo == {2^i : i \in 0..AtomBits}

SlotOf(n, c) == atom_hash(FirstAtom(c), TableSize(edges[n]) - 1) + 1

\* C16: after any sequence of inserts, every node's child table has a size S
\* that is 0 or a power of two, every child with first label atom a sits in
\* slot a & (S-1), no two children map to the same slot, and the single-probe
\* find(a) returns a child iff the node has a child whose label starts with
\* a (then that child); also for both nodes of an edge split.
C16_TableWellFormed ==
    \A n \in Nodes :
        /\ TableSize(edges[n]) \in PowersOfTwo \cup {0}
        /\ \A c \in Children(n) : edges[n].data[SlotOf(n, c)] = c
        /\ \A c, d \in Children(n) : SlotOf(n, c) = SlotOf(n, d) => c = d
        /\ \A a \in SignedAtoms \cup UnsignedAtoms :
              IF \E c \in Children(n) : FirstAtom(c) = a
              THEN /\ find(edges, keys, n, a) # NULL
                   /\ FirstAtom(edges[n].data[find(edges, keys, n, a)]) = a
              ELSE find(edges, keys, n, a) = NULL

\* a 256-slot table: signed atoms that differ in the top bit only, and a third child
C16_Witness ==
    \E n \in Nodes :
        /\ TableSize(edges[n]) = 256
        /\ Cardinality(Children(n)) = 3
        /\ \E c \in Children(n) : FirstAtom(c) = -128

\* C17: after any sequence of inserts, among them inserts of the empty key and
\* of keys that split an edge right after its first atom, every node other
\* than the root has a label of length at least 1.
C17_NonRootLabelsNonEmpty ==
    \A n \in Nodes \ {root} : LabelLen(edges[n]) >= 1

\* the empty key is present, and an edge below the root was split after its
\* first atom
C17_Witness ==
    /\ edges # <<>>
    /\ LabelLen(edges[root]) = 0
    /\ has_value(mode, edges[root])
    /\ \E n \in Nodes \ {root} :
           /\ LabelLen(edges[n]) = 1
           /\ \E c \in Children(n) : LabelLen(edges[c]) = 1

CommonPrefixes == {p \in Keys : \A k \in Keys : Inserted(k) => IsPrefix(p, k)}

\* the longest common prefix of the keys inserted so far (some key was inserted)
LongestCommonPrefix ==
    CHOOSE p \in CommonPrefixes : \A q \in CommonPrefixes : Len(q) <= Len(p)

\* C18: after any non-empty sequence of inserts, the root node's label is the
\* longest common prefix of all keys inserted so far.
C18_RootLabelIsCommonPrefix ==
    edges # <<>> => Label(keys, edges[root]) = LongestCommonPrefix

\* two keys that share their first atom only
C18_Witness ==
    /\ edges # <<>>
    /\ Label(keys, edges[root]) = <<1>>
    /\ Inserted(<<1, 1>>)
    /\ Inserted(<<1, 3>>)
    /\ ~Inserted(<<1>>)

\* C19: after any sequence of insert and add calls, in map mode and in counter
\* mode (where insert(k, v) and add(k, v) accept any integer v, 0 included),
\* every node of a non-empty trie has at least one child or a present value.
C19_NoBareNode ==
    \A n \in Nodes : Children(n) # {} \/ has_value(mode, edges[n])

\* the same, for map mode alone
C19_MapNoBareNode == mode = "map" => C19_NoBareNode

\* (a XOR b) & -(a XOR b) for a # b: the largest power of two that divides a - b
LowestSetBitOfXor(a, b) ==
    CHOOSE d \in PowersOfTwo : (a - b) % d = 0 /\ (a - b) % (2 * d) # 0

\* C20: when a node holds exactly two children with distinct first atoms a and
\* b (8-bit atoms, signed or unsigned), its table size is exactly
\* ((a XOR b) & -(a XOR b)) << 1, whichever of the two was attached first and
\* whether the table started empty, with 1 slot or with 2 slots.
C20_TwoChildrenTableSize ==
    /\ \A n \in Nodes : \A c, d \in Children(n) :
           (Children(n) = {c, d} /\ c # d) =>
               TableSize(edges[n]) =
                   2 * LowestSetBitOfXor(FirstAtom(c), FirstAtom(d))
    /\ edges = <<>> =>
           \A chars \in {-128..127, 0..255} : \A a, b \in chars :
               a # b => least_uncolliding_size(a, b) = 2 * LowestSetBitOfXor(a, b)

\* unsigned atoms 127 and 255 under one node: a 256-slot table
C20_Witness ==
    \E n \in Nodes : \E c, d \in Children(n) :
        /\ Children(n) = {c, d}
        /\ FirstAtom(c) = 127
        /\ FirstAtom(d) = 255
        /\ TableSize(edges[n]) = 256

ChildrenIn(es, n) == {es[n].data[i] : i \in 1..Len(es[n].data)} \ {NULL}

\* the offsets at which insert splits node n: inside the label, and after the
\* first atom for a node entered through an edge
SplitOffsets(n) ==
    {m \in 0..(LabelLen(edges[n]) - 1) : n = root \/ m >= 1}

\* st2 is st after n->split(s, m), s the node new_edge returned
SplitPost(st, n, m, st2, s) ==
    /\ Label(st2.keys, st2.edges[n]) = SubSeq(Label(st.keys, st.edges[n]), 1, m)
    /\ Label(st2.keys, st2.edges[s]) =
          SubSeq(Label(st.keys, st.edges[n]), m + 1, LabelLen(st.edges[n]))
    /\ Label(st2.keys, st2.edges[n]) \o Label(st2.keys, st2.edges[s]) =
          Label(st.keys, st.edges[n])
    /\ st2.edges[s].data = st.edges[n].data
    /\ st2.edges[s].value = st.edges[n].value
    /\ ~has_value(mode, st2.edges[n])
    /\ ChildrenIn(st2.edges, n) = {s}

\* C21: for both label-storage variants, splitting node n at offset m of its
\* label L leaves n with label L[0..m) and creates successor s with label
\* L[m..); s holds exactly n's former children and n's former value, n has no
\* value and s as its only child, and n.label ++ s.label is L.
C21_SplitPostcondition ==
    \A n \in Nodes : \A m \in SplitOffsets(n) : \A hint \in {1, 2} :
        SplitPost(Cur, n, m, split_new(mode, Cur, n, hint, m), Len(edges) + 1)

\* C > 0: the root was split at offset 0 and its successor took over a value
\* and a child
C21_Witness ==
    /\ cmin = ChunkSize
    /\ edges # <<>>
    /\ LabelLen(edges[root]) = 0
    /\ \E c \in Children(root) : has_value(mode, edges[c]) /\ Children(c) # {}

\* the structure of container b is that of container a: as many nodes, each
\* with the same label and the same child table, and the same size()
SameShape(a, b) ==
    /\ Len(b.edges) = Len(a.edges)
    /\ b.msize = a.msize
    /\ \A n \in 1..Len(a.edges) :
          /\ Label(b.keys, b.edges[n]) = Label(a.keys, a.edges[n])
          /\ b.edges[n].data = a.edges[n].data

\* C22: insert or add on a key that already has a value changes only that
\* key's value: the number of nodes, every node's label, every child table,
\* size() and the values of all other keys stay as they were.
C22_OverwriteChangesOnlyValue ==
    [][\A k \in Keys : \A v \in Values(mode) : \A p \in {"insert", "add"} :
          (Lookup(Cur, k) # <<>> /\ Mutate(k, v, p)) =>
              /\ SameShape(Cur, CurNext)
              /\ \A k2 \in Keys \ {k} : Lookup(CurNext, k2) = Lookup(Cur, k2)]_vars

\* map mode: <<1>> holds 2, the value add(<<1>>, 1) leaves on a stored 1, with
\* two extensions present whose values are still 1
C22_Witness ==
    /\ mode = "map"
    /\ msize = 3
    /\ Lookup(Cur, <<1>>) = <<2>>
    /\ Lookup(Cur, <<1, 3>>) = <<1>>
    /\ Lookup(Cur, <<1, 1>>) = <<1>>

\* keys passed to the kernel: up to one atom longer than any stored key
QueryKeys == UNION {[1..n -> Atoms] : n \in 0..(MaxKeyLen + 1)}

\* The j-th node the kernel visited in run r (the last one is the node of the
\* terminal action): the node, the key position and label offset at which its
\* lockstep loop started, and those at which it stopped.
VisitNode(r, j) == IF j <= Len(r.path) THEN r.path[j][1] ELSE r.n

VisitFrom(r, j) == IF j = 1 THEN 0 ELSE r.path[j - 1][3] + 1

VisitOffset(j) == IF j = 1 THEN 0 ELSE 1

VisitTo(r, j) == IF j <= Len(r.path) THEN r.path[j][3] ELSE r.it

VisitStop(r, j) ==
    IF j <= Len(r.path) THEN LabelLen(edges[r.path[j][1]]) ELSE r.k

\* the lockstep loop at the j-th node advanced over equal atoms only
VisitMatched(r, key, j) ==
    /\ VisitFrom(r, j) <= VisitTo(r, j)
    /\ VisitTo(r, j) <= Len(key)
    /\ VisitStop(r, j) <= LabelLen(edges[VisitNode(r, j)])
    /\ SubSeq(key, VisitFrom(r, j) + 1, VisitTo(r, j)) =
          SubSeq(Label(keys, edges[VisitNode(r, j)]), VisitOffset(j) + 1,
                 VisitStop(r, j))

\* the row of the outcome table for the position (n, k, it) of key
TableRow(n, k, key, it) ==
    IF it = Len(key)
    THEN IF k = LabelLen(edges[n]) THEN "exactMatch" ELSE "endInTheMiddle"
    ELSE IF k # LabelLen(edges[n]) THEN "splitInTheMiddle"
    ELSE IF \E c \in Children(n) : FirstAtom(c) = key[it + 1] THEN "descend"
    ELSE "noNextEdge"

KernelRun(r, key) ==
    /\ VisitNode(r, 1) = root
    /\ \A j \in 1..(Len(r.path) + 1) : VisitMatched(r, key, j)
    \* the edge action ran at a descend row, for the child of the next atom
    /\ \A j \in 1..Len(r.path) :
          /\ TableRow(r.path[j][1], LabelLen(edges[r.path[j][1]]), key,
                      r.path[j][3]) = "descend"
          /\ r.path[j][2] \in 1..Len(edges[r.path[j][1]].data)
          /\ edges[r.path[j][1]].data[r.path[j][2]] = VisitNode(r, j + 1)
          /\ FirstAtom(VisitNode(r, j + 1)) = key[r.path[j][3] + 1]
    \* the terminal action is the one of the row the loop stopped at
    /\ r.kind \in {"exactMatch", "endInTheMiddle", "splitInTheMiddle", "noNextEdge"}
    /\ r.kind = TableRow(r.n, r.k, key, r.it)
    /\ (r.it < Len(key) /\ r.k < LabelLen(edges[r.n])) =>
          Label(keys, edges[r.n])[r.k + 1] # key[r.it + 1]
    \* every followed edge consumed an atom
    /\ \A j \in 1..Len(r.path) : VisitFrom(r, j + 1) > VisitFrom(r, j)
    /\ Len(r.path) <= Len(key)

\* C23: every run of the traversal kernel on a well-formed trie and any finite
\* key ends in exactly one of the four terminal actions, the one the outcome
\* table gives for (key exhausted, label exhausted, child for the next atom
\* exists) at the node where it stops, after one edge action per followed edge;
\* each followed edge consumes at least one key atom, so at most |key| edges
\* are followed.
C23_KernelOutcome ==
    edges # <<>> =>
        \A key \in QueryKeys : KernelRun(Search(edges, keys, root, key), key)

\* the key <<1, 3, 1>> follows two edges and stops at a leaf without a child
\* for its last atom
C23_Witness ==
    /\ edges # <<>>
    /\ Len(Search(edges, keys, root, <<1, 3, 1>>).path) = 2
    /\ Search(edges, keys, root, <<1, 3, 1>>).kind = "noNextEdge"

\* the query atoms the kernel consumed before it entered the node of outcome r
ConsumedAbove(key, r) ==
    IF r.path = <<>> THEN <<>> ELSE SubSeq(key, 1, r.path[Len(r.path)][3])

\* C24: for every find_prefix(q) that returns a cursor different from end(),
\* base_prefix is exactly the query atoms consumed strictly before the reached
\* node's own label, and is empty when the reached node is the container root
\* and no edge was followed; so key() neither repeats nor omits atoms.
C24_BasePrefixIsConsumedAtoms ==
    (ret.op = "find_prefix" /\ ret.it # EndIt) =>
        /\ ret.it[1].base_prefix =
              ConsumedAbove(ret.key, Search(edges, keys, root, ret.key))
        /\ IsPrefix(ret.key, ret.seen[1][1])

\* the same, for the queries that followed at least one edge
C24_BelowRootBasePrefix ==
    (edges # <<>> /\ Search(edges, keys, root, ret.key).path # <<>>) =>
        C24_BasePrefixIsConsumedAtoms

\* C25: find_prefix(c, q, sink) with an existing cursor c returns end() when c
\* is the end cursor, and otherwise searches from c's current node, and every
\* key() read while iterating the returned cursor to end() is a key that was
\* inserted: key reconstruction gives the full key, the atoms on the path above
\* c's node included.
C25_FindPrefixFromCursor ==
    ret.op = "find_prefix_from" =>
        /\ ret.fault = "none"
        /\ ret.it2 = EndIt => (ret.it = EndIt /\ ret.seen = <<>>)
        /\ \A i \in 1..Len(ret.seen) :
              ret.seen[i][1] \in Keys /\ Inserted(ret.seen[i][1])

\* the part about the end cursor alone
C25_EndCursorGivesEnd ==
    (ret.op = "find_prefix_from" /\ ret.it2 = EndIt) =>
        (ret.it = EndIt /\ ret.seen = <<>> /\ ret.fault = "none")

\* the nodes below and including n in depth-first pre-order, children in the
\* order of their slots
RECURSIVE PreOrder(_)
RECURSIVE PreOrderSlots(_, _)
PreOrder(n) == <<n>> \o PreOrderSlots(n, 1)

PreOrderSlots(n, i) ==
    IF i > Len(edges[n].data) THEN <<>>
    ELSE (IF edges[n].data[i] = NULL THEN <<>> ELSE PreOrder(edges[n].data[i]))
         \o PreOrderSlots(n, i + 1)

\* the part of sq after its element x
After(sq, x) ==
    SubSeq(sq, (CHOOSE i \in 1..Len(sq) : sq[i] = x) + 1, Len(sq))

\* the nodes repeated next() stands on, from the cursor state ii up to the end
\* state; a walk still going after `fuel` nodes is cut with a NULL entry
RECURSIVE Walk(_, _)
WalkAt(nx, fuel) ==
    IF nx.m_root = NULL THEN <<>>
    ELSE IF fuel = 0 THEN <<NULL>>
    ELSE <<ii_get(edges, nx, 0)>> \o Walk(nx, fuel - 1)

Walk(ii, fuel) == WalkAt(next(edges, ii), fuel)

\* C26: from any cursor over an unmodified trie, repeated next() visits each
\* node of the traversal subtree at most once, in depth-first pre-order, and
\* reaches the end state after at most (number of nodes) steps; on a root of
\* traversal without children the first next() goes to end; ++ on an end
\* iterator leaves it at end.
C26_SteppingTerminates ==
    /\ \A n \in Nodes :
          /\ Walk(Internal(n), Len(edges)) = Tail(PreOrder(n))
          /\ Len(Walk(Internal(n), Len(edges))) + 1 <= Len(edges)
          /\ Children(n) = {} => next(edges, Internal(n)).m_root = NULL
    /\ (ret.op \in {"begin", "find"} /\ ret.it # EndIt) =>
          /\ Walk(ret.it[1], Len(edges)) =
                After(PreOrder(ret.it[1].m_root), ii_get(edges, ret.it[1], 0))
          /\ Len(Walk(ret.it[1], Len(edges))) + 1 <= Len(edges)
    /\ Increment(mode, edges, EndIt) = EndIt

\* find returned a cursor on the first of two leaves below a root that has a
\* label: two more steps of next() reach the end state
C26_Witness ==
    /\ ret.op = "find"
    /\ ret.it # EndIt
    /\ Len(ret.it[1].m_ptrs) = 1
    /\ Len(edges) = 3
    /\ Len(Walk(ret.it[1], Len(edges))) = 1
    /\ Len(Walk(Internal(root), Len(edges))) = 2

\* the label slices lie inside their buffers and no two of them overlap
SlicesDisjoint ==
    /\ \A n \in Nodes :
          /\ edges[n].chunk \in 1..Len(keys)
          /\ 0 <= edges[n].begin
          /\ edges[n].begin <= edges[n].end
          /\ edges[n].end <= Len(keys[edges[n].chunk])
    /\ \A n, m \in Nodes :
          (n # m /\ edges[n].chunk = edges[m].chunk) =>
              (edges[n].end <= edges[m].begin \/ edges[m].end <= edges[n].begin)

\* a step only appends to buffers, and only within the reserved capacity: a
\* buffer that grows was there before and stays within cmin atoms
BuffersKept ==
    /\ Len(keys') >= Len(keys)
    /\ \A c \in 1..Len(keys) :
          /\ IsPrefix(keys[c], keys'[c])
          /\ keys'[c] # keys[c] => Len(keys'[c]) <= cmin

\* the label of node n is the same after the step, or n was split in it: n
\* keeps a proper prefix and its new child the rest
LabelKept(n) ==
    \/ Label(keys', edges'[n]) = Label(keys, edges[n])
    \/ /\ Len(edges') > Len(edges)
       /\ Len(edges) + 1 \in ChildrenIn(edges', n)
       /\ Label(keys', edges'[n]) \o Label(keys', edges'[Len(edges) + 1]) =
             Label(keys, edges[n])

\* C27: for C > 0 no append makes a buffer that already holds labels exceed its
\* reserved capacity C (a buffer longer than C was filled by one append when
\* it was new and is never appended to again), so no stored atom is moved or
\* overwritten; and in every variant the atoms read through a node's label
\* slice change across later inserts only by the truncation made when that
\* node is split.
C27_ArenaStable ==
    /\ []SlicesDisjoint
    /\ [][BuffersKept /\ \A n \in Nodes : LabelKept(n)]_vars

\* C = 1: a buffer of two atoms, filled by one append and now shared by a split
\* node and its successor, next to a later buffer
C27_Witness ==
    /\ cmin = SmallChunk
    /\ Len(keys) >= 2
    /\ Len(keys[1]) > cmin
    /\ \E n, m \in Nodes :
          n # m /\ edges[n].chunk = 1 /\ edges[m].chunk = 1

RECURSIVE Enumerate(_, _, _)
Enumerate(st, it, fuel) ==
    IF it = EndIt THEN <<>>
    ELSE IF fuel = 0 THEN <<NULL>>
    ELSE <<get_key_str(st.edges, st.keys, it[1])>>
         \o Enumerate(st, Increment(mode, st.edges, it), fuel - 1)

\* for (it = begin(); it != end(); ++it) it.key()
KeySeq(st) == Enumerate(st, begin(mode, st), Len(st.edges))

\* the rearrangements of the key sequence sq
Injective(p) == \A i, j \in DOMAIN p : p[i] = p[j] => i = j

Orders(sq) ==
    {[i \in 1..Len(sq) |-> sq[p[i]]] :
        p \in {f \in [1..Len(sq) -> 1..Len(sq)] : Injective(f)}}

\* a container that receives the keys of p in that order, each with the value
\* it has in container cur
RECURSIVE Build(_, _, _, _)
Build(cur, p, i, st) ==
    IF i > Len(p) THEN st
    ELSE Build(cur, p, i + 1,
               insert(mode, cmin, st, p[i], Lookup(cur, p[i])[1], "insert"))

Built(cur, p) == Build(cur, p, 1, Store(<<>>, <<>>, <<>>, 0))

\* the queries: the keys of sq and their prefixes
Queries(sq) ==
    UNION {{SubSeq(sq[i], 1, n) : n \in 0..Len(sq[i])} : i \in 1..Len(sq)}

\* what find_prefix(q) and the iteration to end() show, with the outcomes nd
\* and u of the undefined reads
PrefixEnumOf(st, r) ==
    IF r.fault # "none" THEN <<r.fault>>
    ELSE Enumerate(st, r.it, Len(st.edges))

PrefixEnum(st, q, nd, u) ==
    PrefixEnumOf(st, find_prefix(mode, st, q, "nullptr", FALSE, nd, u))

\* container a shows through begin()..end(), get and contains what container
\* b, whose key sequence is sq, shows
SameValueResults(a, b, sq) ==
    /\ KeySeq(a) = sq
    /\ \A k \in Queries(sq) :
          /\ Lookup(a, k) = Lookup(b, k)
          /\ contains(mode, a, k) = contains(mode, b, k)

\* the same for find_prefix, whatever the undefined reads give in either
SamePrefixResults(a, b, sq) ==
    \A q \in Queries(sq) : \A nd1, nd2 \in NullDerefOutcomes :
    \A u1, u2 \in UninitOutcomes(q) :
        PrefixEnum(a, q, nd1, u1) = PrefixEnum(b, q, nd2, u2)

\* the same for find_prefix, when the undefined reads give the same in both
SamePrefixResultsUpToReads(a, b, sq) ==
    \A q \in Queries(sq) : \A nd \in NullDerefOutcomes :
    \A u \in UninitOutcomes(q) :
        PrefixEnum(a, q, nd, u) = PrefixEnum(b, q, nd, u)

OrderFree(cur, sq) ==
    \A p \in Orders(sq) :
        SameValueResults(Built(cur, p), cur, sq)
            /\ SamePrefixResults(Built(cur, p), cur, sq)

ValueOrderFree(cur, sq) ==
    \A p \in Orders(sq) : SameValueResults(Built(cur, p), cur, sq)

PrefixOrderFree(cur, sq) ==
    \A p \in Orders(sq) : SamePrefixResultsUpToReads(Built(cur, p), cur, sq)

C29_ValueResultsOrderFree == mode = "map" => ValueOrderFree(Cur, KeySeq(Cur))

\* the same for find_prefix alone, when the undefined read of inputEnd gives
\* the same outcome in both containers
C29_PrefixOrderFreeUpToInputEnd ==
    mode = "map" => PrefixOrderFree(Cur, KeySeq(Cur))

\* the keys the client has read through key() so far, in order
SeenKeySeq == [i \in 1..Len(ret.seen) |-> ret.seen[i][1]]

\* sq shows no key after a key that extends it
PrefixesFirst(sq) ==
    \A i, j \in 1..Len(sq) :
        (i < j /\ IsPrefix(sq[j], sq[i])) => sq[i] = sq[j]

\* seen is the stretch of sq that starts at key k, up to the end of sq when the
\* iteration is over
ResumesAt(sq, k, seen, over) ==
    \E i \in 1..Len(sq) :
        /\ sq[i] = k
        /\ Len(seen) <= Len(sq) - i + 1
        /\ seen = SubSeq(sq, i, i + Len(seen) - 1)
        /\ over => i + Len(seen) - 1 = Len(sq)

\* C30: for a present key k, iterating the cursor returned by find(k) to end()
\* yields exactly the part of the begin()..end() key sequence that starts at
\* k, not only the keys that extend k; and in every enumeration a key comes
\* before every inserted key that extends it.
C30_FindResumesEnumeration ==
    /\ PrefixesFirst(KeySeq(Cur))
    /\ (ret.op \in {"begin", "find"} /\ ret.fault = "none") =>
          PrefixesFirst(SeenKeySeq)
    /\ (ret.op = "begin" /\ ret.it = EndIt) => SeenKeySeq = KeySeq(Cur)
    /\ (ret.op = "find" /\ Present(ret.key)) =>
          /\ ret.fault = "none"
          /\ ResumesAt(KeySeq(Cur), ret.key, SeenKeySeq, ret.it = EndIt)

\* find(<<1, 1>>) was iterated to end() and showed <<1, 3>> too, which does not
\* extend <<1, 1>>
C30_Witness ==
    /\ ret.op = "find"
    /\ ret.key = <<1, 1>>
    /\ ret.it = EndIt
    /\ SeenKeySeq = << <<1, 1>>, <<1, 3>> >>
    /\ KeySeq(Cur) = << <<1>>, <<1, 1>>, <<1, 3>> >>

\* C31: in map mode, after any sequence of inserts, every node without a value
\* has at least two children, so no chain of valueless single-child nodes
\* exists, and the number of nodes is at most 2 * size() - 1.
C31_CompressedTrie ==
    (mode = "map" /\ edges # <<>>) =>
        /\ \A n \in Nodes :
              ~has_value(mode, edges[n]) => Cardinality(Children(n)) >= 2
        /\ Len(edges) <= 2 * msize - 1

\* a root without a value above two leaves: three nodes for two keys
C31_Witness ==
    /\ mode = "map"
    /\ Len(edges) = 3
    /\ msize = 2
    /\ ~has_value(mode, edges[root])
    /\ Cardinality(Children(root)) = 2

\* the first atoms of the children of n are pairwise distinct modulo S
Separates(S, n) ==
    \A c, d \in Children(n) :
        c # d => FirstAtom(c) % S # FirstAtom(d) % S

\* the lowest differing bits of the pairs of sibling first atoms under n
SiblingBits(n) ==
    UNION {{LowestSetBitOfXor(FirstAtom(c), FirstAtom(d)) :
                d \in Children(n) \ {c}} : c \in Children(n)}

\* C32: after any sequence of inserts, every node with two or more children
\* has a table whose size is exactly the least power of two S such that its
\* children's first atoms are pairwise distinct modulo S, which is twice the
\* largest lowest differing bit over the pairs of sibling first atoms; the
\* order in which the children were attached plays no part.
C32_TableSizeMinimal ==
    \A n \in Nodes :
        Cardinality(Children(n)) >= 2 =>
            /\ TableSize(edges[n]) \in PowersOfTwo
            /\ Separates(TableSize(edges[n]), n)
            /\ \A T \in PowersOfTwo : T < TableSize(edges[n]) => ~Separates(T, n)
            /\ \A b \in SiblingBits(n) : 2 * b <= TableSize(edges[n])
            /\ \E b \in SiblingBits(n) : 2 * b = TableSize(edges[n])

\* three children with first atoms 0, 1 and 3 under one node: four slots,
\* whether 3 met a two-slot table holding 0 and 1 or 0 met a four-slot table
\* holding 1 and 3
C32_Witness ==
    \E n \in Nodes :
        /\ {FirstAtom(c) : c \in Children(n)} = {0, 1, 3}
        /\ Cardinality(Children(n)) = 3
        /\ TableSize(edges[n]) = 4

\* the stores in which put can meet node n: the container, and the container
\* right after n was split for a diverging key
PutStores(n) ==
    {Cur} \cup {split_new(mode, Cur, n, 2, m) : m \in SplitOffsets(n)}

\* put(edge) with first atom x meets an occupied slot in the table of n
Collides(st, n, x) ==
    /\ TableSize(st.edges[n]) # 0
    /\ find(st.edges, st.keys, n, x) = NULL
    /\ st.edges[n].data[atom_hash(x, TableSize(st.edges[n]) - 1) + 1] # NULL

Occupant(st, n, x) ==
    st.edges[st.edges[n].data[atom_hash(x, TableSize(st.edges[n]) - 1) + 1]]

\* new_size is a size resize re-hashes to, and the re-hash keeps every child
GrowsTo(st, n, new_size) ==
    /\ new_size # 0
    /\ new_size \in PowersOfTwo
    /\ new_size > TableSize(st.edges[n])
    /\ new_size <= 2 ^ AtomBits
    /\ ChildrenIn(resize(st, n, new_size).edges, n) = ChildrenIn(st.edges, n)
    /\ Cardinality(ChildrenIn(st.edges, n)) =
          Cardinality({atom_hash(kbegin(st.keys, st.edges[c]), new_size - 1) :
                          c \in ChildrenIn(st.edges, n)})

\* least_uncolliding_size(a, b) = v is a power of two up to 256 and exceeds
\* every table size at which a and b share a slot
PairGrows(a, b, v) ==
    /\ v # 0
    /\ v \in PowersOfTwo
    /\ \A S \in PowersOfTwo : a % S = b % S => v > S

\* C33: whenever put grows a table because of a slot collision, the size that
\* least_uncolliding_size gives is a power of two, strictly greater than the
\* current size and at most 256 for 8-bit atoms, never 0, also for negative
\* signed char atoms; so resize takes the re-hash branch and every child of
\* the old table is placed in the new one.
C33_CollisionGrowsTable ==
    /\ \A n \in Nodes : \A st \in PutStores(n) :
       \A x \in SignedAtoms \cup UnsignedAtoms :
           (OneCharType(StoredAtoms(keys) \cup {x}) /\ Collides(st, n, x)) =>
               GrowsTo(st, n,
                       least_uncolliding_size(x, kbegin(st.keys, Occupant(st, n, x))))
    /\ edges = <<>> =>
           \A chars \in {-128..127, 0..255} : \A a, b \in chars :
               a # b => PairGrows(a, b, least_uncolliding_size(a, b))

\* signed char atoms: -128 under a node whose table was grown to 256 slots for
\* it, next to two children that were re-placed
C33_Witness ==
    \E n \in Nodes :
        /\ TableSize(edges[n]) = 256
        /\ Cardinality(Children(n)) = 3
        /\ \E c \in Children(n) : FirstAtom(c) = -128

====
